---- MODULE Spec2Model ----
(***************************************************************************)
(* Decoding of a JSON-RPC 2.0 payload (src/src/request.rs): the Call       *)
(* classifier (impl Deserialize for Call) and the Request envelope         *)
(* resolver (impl Deserialize for Request), applied to already-parsed JSON *)
(* values.                                                                 *)
(*                                                                         *)
(* JSON values are tagged records: null, bool, int, frac (a number with a  *)
(* fractional part), str, arr (a sequence of values) and obj (a function   *)
(* from the keys that are present to their values).                        *)
(***************************************************************************)
EXTENDS Integers, Sequences, FiniteSets, TLC

VARIABLES input, structFromSeq, call, request

vars == <<input, structFromSeq, call, request>>

\* Longest top-level array the model decodes.
MaxBatch == 3

-----------------------------------------------------------------------------
(* JSON values *)

JNull == [t |-> "null"]
JBool == [t |-> "bool", b |-> TRUE]
JFrac == [t |-> "frac"]
JInt(n) == [t |-> "int", n |-> n]
JStr(s) == [t |-> "str", s |-> s]
JArr(a) == [t |-> "arr", a |-> a]
JObj(m) == [t |-> "obj", m |-> m]

IsObj(v) == v.t = "obj"
IsArr(v) == v.t = "arr"
IsScalar(v) == v.t \in {"null", "bool", "int", "frac", "str"}
HasKey(v, k) == k \in DOMAIN v.m

-----------------------------------------------------------------------------
(* Result<T, E>: the error value carries nothing the decoders read. *)

Pending == [st |-> "pending"]
Err == [st |-> "err"]
Ok(v) == [st |-> "ok", val |-> v]
IsOk(r) == r.st = "ok"
IsErr(r) == r.st = "err"

-----------------------------------------------------------------------------
(* Field types (super::{Id, Params, Version}) and String *)

\* Version: the string "2.0" and nothing else.
VersionDeserialize(v) ==
    IF v.t = "str" /\ v.s = "2.0" THEN Ok("V2") ELSE Err

\* String: any JSON string.
StringDeserialize(v) ==
    IF v.t = "str" THEN Ok(v.s) ELSE Err

\* Id: a string, an integer or null.
IdDeserialize(v) ==
    CASE v.t = "str" -> Ok([t |-> "Str", s |-> v.s])
      [] v.t = "int" -> Ok([t |-> "Num", n |-> v.n])
      [] v.t = "null" -> Ok([t |-> "Null"])
      [] OTHER -> Err

\* Params: an array or an object of values.
ParamsDeserialize(v) ==
    CASE v.t = "arr" -> Ok([t |-> "Array", a |-> v.a])
      [] v.t = "obj" -> Ok([t |-> "Map", m |-> v.m])
      [] OTHER -> Err

None == [t |-> "None"]
Some(p) == [t |-> "Some", p |-> p]

\* Option<Params> given a value: null is None, anything else must decode as
\* Params.
OptionParamsDeserialize(v) ==
    IF v.t = "null" THEN Ok(None)
    ELSE LET r == ParamsDeserialize(v) IN
         IF IsOk(r) THEN Ok(Some(r.val)) ELSE Err

\* ParamsField with a value that fails to decode taken as None.
ParamsFieldLenient(m) ==
    IF "params" \in DOMAIN m
    THEN LET r == OptionParamsDeserialize(m["params"]) IN
         IF IsOk(r) THEN r ELSE Ok(None)
    ELSE Ok(None)

\* The params field of a struct decoded from an object: a missing key is None.
ParamsField(m) ==
    IF "params" \in DOMAIN m THEN OptionParamsDeserialize(m["params"]) ELSE Ok(None)

-----------------------------------------------------------------------------
(* The structs and their derived decoders *)

NotificationFields == <<"jsonrpc", "method", "params">>
MethodCallFields == <<"jsonrpc", "method", "params", "id">>

Range(s) == {s[i] : i \in 1..Len(s)}

MkNotification(ver, method, params) ==
    [kind |-> "Notification", jsonrpc |-> ver, method |-> method, params |-> params]

MkMethodCall(ver, method, params, id) ==
    [kind |-> "MethodCall", jsonrpc |-> ver, method |-> method, params |-> params,
     id |-> id]

Invalid == [kind |-> "Invalid"]

\* NotificationFromMap with params a required field.
NotificationFromMapParamsRequired(m) ==
    IF /\ DOMAIN m \subseteq Range(NotificationFields)
       /\ "jsonrpc" \in DOMAIN m
       /\ "method" \in DOMAIN m
       /\ "params" \in DOMAIN m
    THEN LET ver == VersionDeserialize(m["jsonrpc"])
             method == StringDeserialize(m["method"])
             params == ParamsField(m)
         IN IF IsOk(ver) /\ IsOk(method) /\ IsOk(params)
            THEN Ok(MkNotification(ver.val, method.val, params.val))
            ELSE Err
    ELSE Err

\* NotificationFromMap with keys that are not fields skipped.
NotificationFromMapIgnoreUnknown(m) ==
    IF /\ "jsonrpc" \in DOMAIN m
       /\ "method" \in DOMAIN m
    THEN LET ver == VersionDeserialize(m["jsonrpc"])
             method == StringDeserialize(m["method"])
             params == ParamsField(m)
         IN IF IsOk(ver) /\ IsOk(method) /\ IsOk(params)
            THEN Ok(MkNotification(ver.val, method.val, params.val))
            ELSE Err
    ELSE Err

\* Notification from an object: jsonrpc and method are required, params is
\* optional, and a key that is not a field of the struct is an error.
NotificationFromMap(m) ==
    IF /\ DOMAIN m \subseteq Range(NotificationFields)
       /\ "jsonrpc" \in DOMAIN m
       /\ "method" \in DOMAIN m
    THEN LET ver == VersionDeserialize(m["jsonrpc"])
             method == StringDeserialize(m["method"])
             params == ParamsField(m)
         IN IF IsOk(ver) /\ IsOk(method) /\ IsOk(params)
            THEN Ok(MkNotification(ver.val, method.val, params.val))
            ELSE Err
    ELSE Err

\* MethodCallFromMap with a null id taken as a missing id.
MethodCallFromMapNullIdMissing(m) ==
    IF /\ DOMAIN m \subseteq Range(MethodCallFields)
       /\ "jsonrpc" \in DOMAIN m
       /\ "method" \in DOMAIN m
       /\ "id" \in DOMAIN m
       /\ m["id"].t # "null"
    THEN LET ver == VersionDeserialize(m["jsonrpc"])
             method == StringDeserialize(m["method"])
             params == ParamsField(m)
             id == IdDeserialize(m["id"])
         IN IF IsOk(ver) /\ IsOk(method) /\ IsOk(params) /\ IsOk(id)
            THEN Ok(MkMethodCall(ver.val, method.val, params.val, id.val))
            ELSE Err
    ELSE Err

\* MethodCallFromMap with jsonrpc an optional field.
MethodCallFromMapOptVersion(m) ==
    IF /\ DOMAIN m \subseteq Range(MethodCallFields)
       /\ "method" \in DOMAIN m
       /\ "id" \in DOMAIN m
    THEN LET ver == IF "jsonrpc" \in DOMAIN m
                    THEN VersionDeserialize(m["jsonrpc"]) ELSE Ok("V2")
             method == StringDeserialize(m["method"])
             params == ParamsField(m)
             id == IdDeserialize(m["id"])
         IN IF IsOk(ver) /\ IsOk(method) /\ IsOk(params) /\ IsOk(id)
            THEN Ok(MkMethodCall(ver.val, method.val, params.val, id.val))
            ELSE Err
    ELSE Err

\* MethodCallFromMap with keys that are not fields skipped.
MethodCallFromMapIgnoreUnknown(m) ==
    IF /\ "jsonrpc" \in DOMAIN m
       /\ "method" \in DOMAIN m
       /\ "id" \in DOMAIN m
    THEN LET ver == VersionDeserialize(m["jsonrpc"])
             method == StringDeserialize(m["method"])
             params == ParamsField(m)
             id == IdDeserialize(m["id"])
         IN IF IsOk(ver) /\ IsOk(method) /\ IsOk(params) /\ IsOk(id)
            THEN Ok(MkMethodCall(ver.val, method.val, params.val, id.val))
            ELSE Err
    ELSE Err

\* MethodCall from an object: as Notification, with the required field id.
MethodCallFromMap(m) ==
    IF /\ DOMAIN m \subseteq Range(MethodCallFields)
       /\ "jsonrpc" \in DOMAIN m
       /\ "method" \in DOMAIN m
       /\ "id" \in DOMAIN m
    THEN LET ver == VersionDeserialize(m["jsonrpc"])
             method == StringDeserialize(m["method"])
             params == ParamsField(m)
             id == IdDeserialize(m["id"])
         IN IF IsOk(ver) /\ IsOk(method) /\ IsOk(params) /\ IsOk(id)
            THEN Ok(MkMethodCall(ver.val, method.val, params.val, id.val))
            ELSE Err
    ELSE Err

\* A struct from a sequence: one element per field, in declaration order.
NotificationFromSeq(a) ==
    IF Len(a) = Len(NotificationFields)
    THEN LET ver == VersionDeserialize(a[1])
             method == StringDeserialize(a[2])
             params == OptionParamsDeserialize(a[3])
         IN IF IsOk(ver) /\ IsOk(method) /\ IsOk(params)
            THEN Ok(MkNotification(ver.val, method.val, params.val))
            ELSE Err
    ELSE Err

MethodCallFromSeq(a) ==
    IF Len(a) = Len(MethodCallFields)
    THEN LET ver == VersionDeserialize(a[1])
             method == StringDeserialize(a[2])
             params == OptionParamsDeserialize(a[3])
             id == IdDeserialize(a[4])
         IN IF IsOk(ver) /\ IsOk(method) /\ IsOk(params) /\ IsOk(id)
            THEN Ok(MkMethodCall(ver.val, method.val, params.val, id.val))
            ELSE Err
    ELSE Err

\* #[derive(Deserialize)] struct Notification. Whether the derived visitor
\* also accepts a sequence is decided by the derive of the build, not by
\* request.rs: structFromSeq ranges over both.
NotificationDeserialize(v) ==
    CASE IsObj(v) -> NotificationFromMap(v.m)
      [] IsArr(v) /\ structFromSeq -> NotificationFromSeq(v.a)
      [] OTHER -> Err

\* #[derive(Deserialize)] struct MethodCall.
MethodCallDeserialize(v) ==
    CASE IsObj(v) -> MethodCallFromMap(v.m)
      [] IsArr(v) /\ structFromSeq -> MethodCallFromSeq(v.a)
      [] OTHER -> Err

\* Peek::peek: try to decode the value as the type, leaving the value in
\* place for the next attempt when it fails.
NotificationPeek(v) == NotificationDeserialize(v)
MethodCallPeek(v) == MethodCallDeserialize(v)

\* Value::deserialize: every JSON value is a Value.
ValueDeserialize(v) == Ok(v)

-----------------------------------------------------------------------------
(* impl Deserialize for Call *)

\* Result::or_else over a failed first attempt.
OrElse(r, next) == IF IsOk(r) THEN r ELSE next

\* CallDeserialize without its last step: the error of the MethodCall probe
\* is returned.
CallDeserializeNoFallback(v) ==
    LET n == NotificationPeek(v)
        m == MethodCallPeek(v)
    IN OrElse(n, OrElse(m, Err))

CallDeserialize(v) ==
    LET n == NotificationPeek(v)
        m == MethodCallPeek(v)
        any == ValueDeserialize(v)
    IN OrElse(n, OrElse(m, IF IsOk(any) THEN Ok(Invalid) ELSE Err))

-----------------------------------------------------------------------------
(* impl Deserialize for Request *)

\* Vec<Call> from a sequence: the elements are decoded in order and pushed;
\* an element's error is the vector's error.
RECURSIVE VecCallFromSeq(_, _)
VecCallFromSeq(a, acc) ==
    IF a = <<>> THEN Ok(acc)
    ELSE LET c == CallDeserialize(Head(a)) IN
         IF IsOk(c) THEN VecCallFromSeq(Tail(a), Append(acc, c.val)) ELSE Err

\* <Vec<Call> as Peek>::peek: only an array is a vector.
VecCallPeek(v) ==
    IF IsArr(v) THEN VecCallFromSeq(v.a, <<>>) ELSE Err

Single(c) == [kind |-> "Single", call |-> c]
Batch(cs) == [kind |-> "Batch", calls |-> cs]

\* RequestDeserialize with the two attempts in the other order.
RequestDeserializeCallFirst(v) ==
    LET b == VecCallPeek(v)
        c == CallDeserialize(v)
    IN IF IsOk(c) THEN Ok(Single(c.val))
       ELSE IF IsOk(b) THEN Ok(Batch(b.val)) ELSE Err

\* RequestDeserialize with a single call wrapped as a batch of one.
RequestDeserializeSingleAsBatch(v) ==
    LET b == VecCallPeek(v)
        c == CallDeserialize(v)
    IN IF IsOk(b) THEN Ok(Batch(b.val))
       ELSE IF IsOk(c) THEN Ok(Batch(<<c.val>>)) ELSE Err

RequestDeserialize(v) ==
    LET b == VecCallPeek(v)
        c == CallDeserialize(v)
    IN IF IsOk(b) THEN Ok(Batch(b.val))
       ELSE IF IsOk(c) THEN Ok(Single(c.val)) ELSE Err

-----------------------------------------------------------------------------
(* Inputs *)

Absent == [t |-> "absent"]

ArrOneTwo == JArr(<<JInt(1), JInt(2)>>)
ArrOne == JArr(<<JInt(1)>>)

JsonrpcChoices == {Absent, JStr("2.0"), JStr("1.0"), JInt(2), JNull}
MethodChoices == {Absent, JStr("update"), JInt(1)}
ParamsChoices == {Absent, JNull, ArrOneTwo, JObj([k \in {"a"} |-> JInt(1)]),
                  JInt(5), JStr("x")}
IdChoices == {Absent, JNull, JInt(1), JStr("abc"), JBool, JFrac, ArrOne,
              JObj([k \in {"a"} |-> JInt(1)])}
ExtraChoices == {Absent, JInt(1)}

\* The object with the given values under the five keys, Absent standing for
\* a key that is not there.
MkObj(j, me, p, i, e) ==
    LET f == [k \in {"jsonrpc", "method", "params", "id", "extra"} |->
                CASE k = "jsonrpc" -> j
                  [] k = "method" -> me
                  [] k = "params" -> p
                  [] k = "id" -> i
                  [] k = "extra" -> e]
    IN JObj([k \in {k \in DOMAIN f : f[k].t # "absent"} |-> f[k]])

Objects ==
    {MkObj(j, me, p, i, e) : j \in JsonrpcChoices, me \in MethodChoices,
                             p \in ParamsChoices, i \in IdChoices, e \in ExtraChoices}

Scalars == {JNull, JBool, JInt(1), JFrac, JStr("update")}

\* Arrays that appear as elements of a batch.
NestedArrays ==
    {JArr(<<JStr("2.0"), JStr("update")>>),
     JArr(<<JStr("2.0"), JStr("update"), ArrOneTwo>>),
     JArr(<<JStr("2.0"), JStr("update"), ArrOneTwo, JInt(1)>>),
     JArr(<<MkObj(JStr("2.0"), JStr("update"), Absent, Absent, Absent)>>)}

\* Elements of the top-level arrays: the scalars, the nested arrays and a
\* choice of objects of every classification.
BatchElems ==
    Scalars \cup NestedArrays \cup
    {MkObj(JStr("2.0"), JStr("update"), ArrOneTwo, JInt(1), Absent),
     MkObj(JStr("2.0"), JStr("update"), ArrOne, Absent, Absent),
     MkObj(JStr("2.0"), JStr("update"), Absent, JBool, Absent),
     MkObj(JStr("1.0"), JStr("update"), Absent, JInt(1), Absent),
     MkObj(JStr("2.0"), JStr("update"), Absent, Absent, JInt(1))}

SeqsUpTo(S, n) == UNION {[1..k -> S] : k \in 0..n}

Arrays == {JArr(a) : a \in SeqsUpTo(BatchElems, MaxBatch)}

Inputs == Objects \cup Scalars \cup Arrays

-----------------------------------------------------------------------------
(* The state machine: one payload, decoded as a Call and as a Request *)

Init ==
    /\ input \in Inputs
    /\ structFromSeq \in BOOLEAN
    /\ call = Pending
    /\ request = Pending

DeserializeCall ==
    /\ call = Pending
    /\ call' = CallDeserialize(input)
    /\ UNCHANGED <<input, structFromSeq, request>>

DeserializeRequest ==
    /\ request = Pending
    /\ request' = RequestDeserialize(input)
    /\ UNCHANGED <<input, structFromSeq, call>>

Next == DeserializeCall \/ DeserializeRequest

Spec == Init /\ [][Next]_vars

-----------------------------------------------------------------------------
(* Properties *)

CallDone == call.st # "pending"
RequestDone == request.st # "pending"

Without(v, k) == JObj([x \in DOMAIN v.m \ {k} |-> v.m[x]])

IsV2(v) == IsObj(v) /\ HasKey(v, "jsonrpc") /\ v.m["jsonrpc"].t = "str"
           /\ v.m["jsonrpc"].s = "2.0"
HasStrMethod(v) == IsObj(v) /\ HasKey(v, "method") /\ v.m["method"].t = "str"
HasValidId(v) == IsObj(v) /\ HasKey(v, "id") /\ v.m["id"].t \in {"str", "int", "null"}
OnlyKeys(v, ks) == IsObj(v) /\ DOMAIN v.m \subseteq ks
ParamsDecodable(v) ==
    HasKey(v, "params") => v.m["params"].t \in {"arr", "obj", "null"}

\* The decoded params are those of the object v.
ParamsMatch(d, v) ==
    IF ~HasKey(v, "params") THEN d.t = "None"
    ELSE LET p == v.m["params"] IN
         CASE p.t = "null" -> d.t = "None"
           [] p.t = "arr" -> d.t = "Some" /\ d.p.t = "Array" /\ d.p.a = p.a
           [] p.t = "obj" -> d.t = "Some" /\ d.p.t = "Map" /\ d.p.m = p.m
           [] OTHER -> FALSE

\* The decoded id is the JSON value j.
IdMatch(d, j) ==
    CASE j.t = "null" -> d.t = "Null"
      [] j.t = "int" -> d.t = "Num" /\ d.n = j.n
      [] j.t = "str" -> d.t = "Str" /\ d.s = j.s
      [] OTHER -> FALSE

\* C1: decoding a value as a Call returns Ok of a MethodCall, a Notification
\* or Invalid, and decoding it as a Request returns Ok of a Single or a Batch;
\* neither returns an error.
C1_Total ==
    /\ CallDone =>
         IsOk(call) /\ call.val.kind \in {"MethodCall", "Notification", "Invalid"}
    /\ RequestDone =>
         IsOk(request) /\ request.val.kind \in {"Single", "Batch"}

\* C1 witness: both decodes have returned for a value on which the
\* Notification probe, the MethodCall probe and the batch probe all failed.
C1_Witness ==
    /\ CallDone /\ RequestDone
    /\ IsErr(NotificationPeek(input))
    /\ IsErr(MethodCallPeek(input))
    /\ IsErr(VecCallPeek(input))

C2_Pre == IsV2(input) /\ HasStrMethod(input) /\ ~HasKey(input, "id")

C2_Post ==
    /\ IsOk(call)
    /\ call.val.kind = "Notification"
    /\ call.val.method = input.m["method"].s
    /\ ParamsMatch(call.val.params, input)

\* C2 as stated: every object with jsonrpc "2.0", a string method and no id
\* key classifies as Notification with the input's method and params.
C2_Original == (CallDone /\ C2_Pre) => C2_Post

\* C2 as amended: every object with jsonrpc "2.0", a string method, no id key,
\* no key other than jsonrpc, method and params, and params absent, null, an
\* array or an object classifies as Notification with the input's method and
\* params (absent or null params decode as None).
C2_Notification ==
    (/\ CallDone
     /\ C2_Pre
     /\ OnlyKeys(input, {"jsonrpc", "method", "params"})
     /\ ParamsDecodable(input)) => C2_Post

\* C2 witness: a Notification decoded from an object with params, and the
\* same for one without.
C2_Witness ==
    /\ CallDone /\ C2_Pre /\ ParamsDecodable(input)
    /\ OnlyKeys(input, {"jsonrpc", "method", "params"})
    /\ HasKey(input, "params") /\ input.m["params"].t = "arr"

C3_Pre == IsV2(input) /\ HasStrMethod(input) /\ HasValidId(input)

C3_Post ==
    /\ IsOk(call)
    /\ call.val.kind = "MethodCall"
    /\ IdMatch(call.val.id, input.m["id"])

\* C3 as stated: every object with jsonrpc "2.0", a string method and an id
\* that is a string, an integer or null classifies as MethodCall with the
\* input's id.
C3_Original == (CallDone /\ C3_Pre) => C3_Post

\* C3 as amended: every such object that has no key other than jsonrpc,
\* method, params and id, and whose params is absent, null, an array or an
\* object, classifies as MethodCall with the input's id.
C3_MethodCall ==
    (/\ CallDone
     /\ C3_Pre
     /\ OnlyKeys(input, {"jsonrpc", "method", "params", "id"})
     /\ ParamsDecodable(input)) => C3_Post

\* C3 witness: a MethodCall decoded from an object whose id is null.
C3_Witness ==
    /\ CallDone /\ C3_Pre /\ ParamsDecodable(input)
    /\ OnlyKeys(input, {"jsonrpc", "method", "params", "id"})
    /\ input.m["id"].t = "null"

\* The object is a valid Notification once its id key is taken away.
C4_Pre ==
    /\ IsObj(input) /\ HasKey(input, "id")
    /\ CallDeserialize(Without(input, "id")).val.kind = "Notification"

\* The call is the MethodCall with the fields of the Notification that the
\* object without its id decodes to.
C4_Flipped ==
    LET n == CallDeserialize(Without(input, "id")).val IN
    /\ IsOk(call)
    /\ call.val.kind = "MethodCall"
    /\ call.val.method = n.method
    /\ call.val.params = n.params

\* C4 as stated: an otherwise-valid Notification object with an id key is
\* rejected by the Notification decoder and classifies as MethodCall, never
\* as Notification or Invalid.
C4_Original ==
    (CallDone /\ C4_Pre) => (IsErr(NotificationDeserialize(input)) /\ C4_Flipped)

\* C4 as amended: the Notification decoder rejects every object with an id
\* key, so none classifies as Notification; an otherwise-valid Notification
\* object with an id key whose value is a string, an integer or null
\* classifies as MethodCall, not as Invalid.
C4_IdFlips ==
    /\ (CallDone /\ IsObj(input) /\ HasKey(input, "id")) =>
         (IsErr(NotificationDeserialize(input)) /\ call.val.kind # "Notification")
    /\ (CallDone /\ C4_Pre /\ HasValidId(input)) => C4_Flipped

\* C4 witness: an object with an id that is a Notification without it, decoded.
C4_Witness == CallDone /\ C4_Pre /\ HasValidId(input) /\ HasKey(input, "params")

C5_Pre == IsObj(input) /\ (~HasKey(input, "method") \/ ~IsV2(input))

\* C5: an object without a method key, or whose jsonrpc is absent or is not
\* the string "2.0", classifies as Invalid, with or without an id key.
C5_Invalid == (CallDone /\ C5_Pre) => call = Ok(Invalid)

\* C5 witness: an object with an id and a method but no jsonrpc key, decoded.
C5_Witness ==
    /\ CallDone /\ C5_Pre
    /\ HasValidId(input) /\ HasStrMethod(input) /\ ~HasKey(input, "jsonrpc")

\* C6: an array of n elements resolves to a Batch of n calls, the call at
\* position i being the classification of element i on its own; any other
\* value v resolves to Single of the classification of v.
C6_Envelope ==
    RequestDone =>
      IF IsArr(input)
      THEN /\ request.st = "ok"
           /\ request.val.kind = "Batch"
           /\ Len(request.val.calls) = Len(input.a)
           /\ \A i \in 1..Len(input.a) :
                Ok(request.val.calls[i]) = CallDeserialize(input.a[i])
      ELSE /\ request.st = "ok"
           /\ request.val.kind = "Single"
           /\ Ok(request.val.call) = CallDeserialize(input)
           /\ CallDone => request.val.call = call.val

\* C6 witness: a resolved array with an Invalid element next to a valid call.
C6_Witness ==
    /\ RequestDone /\ IsArr(input) /\ Len(input.a) >= 2
    /\ request.val.calls[1].kind = "Invalid"
    /\ request.val.calls[2].kind = "MethodCall"

\* C7: a number, string, boolean or null classifies as Invalid, resolves to
\* Single(Invalid), and is Invalid at its position as an element of a batch.
C7_ScalarInvalid ==
    /\ (CallDone /\ IsScalar(input)) => call = Ok(Invalid)
    /\ (RequestDone /\ IsScalar(input)) => request = Ok(Single(Invalid))
    /\ (RequestDone /\ IsArr(input)) =>
         /\ IsOk(request)
         /\ request.val.kind = "Batch"
         /\ \A i \in 1..Len(input.a) :
              IsScalar(input.a[i]) =>
                (i <= Len(request.val.calls) /\ request.val.calls[i] = Invalid)

\* C7 witness: a scalar decoded both ways.
C7_Witness == CallDone /\ RequestDone /\ IsScalar(input)

\* C7 witness inside a batch is covered by C6_Witness; this one has a scalar
\* after a valid call.
C7_BatchWitness ==
    /\ RequestDone /\ IsArr(input) /\ Len(input.a) >= 2
    /\ IsScalar(input.a[2]) /\ request.val.calls[1].kind = "Notification"

C8_BadId == HasKey(input, "id") /\ input.m["id"].t \in {"bool", "frac", "arr", "obj"}

C8_IdWitness ==
    /\ CallDone /\ IsV2(input) /\ HasStrMethod(input)
    /\ OnlyKeys(input, {"jsonrpc", "method", "id"})
    /\ HasKey(input, "id") /\ input.m["id"].t = "bool"

C9_Pre ==
    /\ IsObj(input)
    /\ DOMAIN input.m \ {"jsonrpc", "method", "params", "id"} # {}
    /\ CallDeserialize(Without(input, "extra")).val.kind \in {"Notification", "MethodCall"}

\* C9: an object that is a valid Notification or MethodCall but for a key
\* outside jsonrpc, method, params and id fails both probes and classifies as
\* Invalid.
C9_UnknownKey ==
    (CallDone /\ C9_Pre) =>
      /\ IsErr(NotificationPeek(input))
      /\ IsErr(MethodCallPeek(input))
      /\ call = Ok(Invalid)

\* C9 witness: a valid MethodCall object with one more key, decoded.
C9_Witness == CallDone /\ C9_Pre /\ HasKey(input, "id")

\* C10: an array that is an element of a batch classifies as Invalid at its
\* position. This holds of the behaviours with structFromSeq false and fails
\* in those with structFromSeq true, where an array with one element per
\* field decodes as the struct.
C10_NestedArrayInvalid ==
    (RequestDone /\ IsArr(input)) =>
      \A i \in 1..Len(input.a) :
        IsArr(input.a[i]) => request.val.calls[i] = Invalid

====
